---- MODULE Spec2Model ----
(* Model of myipinfo (src/src/main.rs): one invocation of main(), from the   *)
(* parsed command line to process exit.  Every file read, database parse,    *)
(* database query and reverse-DNS call is logged in io; every println! is    *)
(* logged in stdout; exit holds the process exit code once main has ended.   *)
EXTENDS Integers, Sequences, FiniteSets, TLC

VARIABLES mode, ipaddr, lang_code, last_subdiv, pc, buffer, rdr_city, rdr_asn,
          geo, org, io, stdout, stderr, exit

vars == <<mode, ipaddr, lang_code, last_subdiv, pc, buffer, rdr_city, rdr_asn,
          geo, org, io, stdout, stderr, exit>>

(* ---------------------------------------------------------------------- *)
(* Option<T>: None is the empty sequence, Some(x) the one-element one.     *)
(* ---------------------------------------------------------------------- *)
None == <<>>
Some(x) == <<x>>
IsSome(o) == Len(o) = 1
IsNone(o) == Len(o) = 0
Unwrap(o) == o[1]

(* ---------------------------------------------------------------------- *)
(* Program constants.                                                      *)
(* ---------------------------------------------------------------------- *)
ASN_IP2 == "GeoIP2-ASN.mmdb"
ASN_LITE2 == "GeoLite2-ASN.mmdb"
CITY_IP2 == "GeoIP2-City.mmdb"
CITY_LITE2 == "GeoLite2-City.mmdb"
mmdbdir == "/var/lib/GeoIP"

ExitOk == 0
ExitError == 1
ExitPanic == 101

(* ---------------------------------------------------------------------- *)
(* Bounds of the model.                                                    *)
(* ---------------------------------------------------------------------- *)
MaxSubdivs == 2
MaxLangs == 2

(* ---------------------------------------------------------------------- *)
(* Input domains.                                                          *)
(* ---------------------------------------------------------------------- *)
SeqsUpTo(S, n) == UNION {[1..k -> S] : k \in 0..n}

Modes == {"lookup", "listonly"}

IpAddrs == { <<8, 8, 8, 8>>, <<127, 0, 0, 1>>, <<10, 0, 0, 5>>,
             <<192, 168, 1, 1>>, <<169, 254, 1, 1>>, <<100, 64, 0, 1>>,
             <<192, 0, 2, 1>>, <<255, 255, 255, 255>> }

LangCodes == {"en", "de"}

CityName(l) == IF l = "de" THEN "Zuerich" ELSE "Zurich"
NameMaps == { [l \in {"de"} |-> CityName(l)], [l \in {"en", "de"} |-> CityName(l)] }
CityOpts == {None} \cup {Some([names |-> None])}
                   \cup {Some([names |-> Some(m)]) : m \in NameMaps}

IsoOpts == {None, Some("ZH"), Some("8")}
SubdivOpts == {None} \cup {Some(s) : s \in SeqsUpTo([iso_code : IsoOpts], MaxSubdivs)}

CountryOpts == {None, Some([iso_code |-> Some("CH")])}
PostalOpts == {None, Some([code |-> Some("8000")])}

LatOpts == {None, Some(47), Some(-33)}
LongOpts == {None, Some(8)}
TzOpts == {None, Some("Europe/Zurich")}
LocationOpts == {None} \cup
    {Some(l) : l \in [latitude : LatOpts, longitude : LongOpts, time_zone : TzOpts]}

CityStructs == [city : CityOpts, subdivisions : SubdivOpts, country : CountryOpts,
                location : LocationOpts, postal : PostalOpts]

AsnStructs == [autonomous_system_number : {None, Some(15169)},
               autonomous_system_organization : {None, Some("Google LLC")}]

ReadOutcomes == {"valid", "malformed", "unreadable", "missing"}
QueryErrors == {"NotFound", "InvalidData"}
HostnameResults == {None, Some("dns.google")}
LanguageLists == {s \in SeqsUpTo(LangCodes, MaxLangs) :
                    \A i, j \in 1..Len(s) : i # j => s[i] # s[j]}

(* ---------------------------------------------------------------------- *)
(* Pure functions.                                                         *)
(* ---------------------------------------------------------------------- *)
IsGlobal(ip) ==
    LET a == ip[1]  b == ip[2]  c == ip[3]  d == ip[4]
        is_private == \/ a = 10
                      \/ a = 172 /\ b \in 16..31
                      \/ a = 192 /\ b = 168
        is_shared == a = 100 /\ b \in 64..127
        is_loopback == a = 127
        is_link_local == a = 169 /\ b = 254
        is_future == a = 192 /\ b = 0 /\ c = 0 /\ d # 9 /\ d # 10
        is_documentation == \/ a = 192 /\ b = 0 /\ c = 2
                            \/ a = 198 /\ b = 51 /\ c = 100
                            \/ a = 203 /\ b = 0 /\ c = 113
        is_benchmarking == a = 198 /\ b \in {18, 19}
        is_broadcast == a = 255 /\ b = 255 /\ c = 255 /\ d = 255
        is_reserved == a >= 240 /\ ~is_broadcast
    IN ~(a = 0 \/ is_private \/ is_shared \/ is_loopback \/ is_link_local
         \/ is_future \/ is_documentation \/ is_benchmarking \/ is_reserved
         \/ is_broadcast)

IpToString(ip) ==
    ToString(ip[1]) \o "." \o ToString(ip[2]) \o "." \o ToString(ip[3])
        \o "." \o ToString(ip[4])

(* Display of an f64 holding a whole number: no fractional part is printed. *)
FmtF64(x) == ToString(x)

(* Result of a call that may panic. *)
Returned(v) == [panicked |-> FALSE, val |-> v]
Panicked == [panicked |-> TRUE, val |-> None]

get_some_city(g, lang) ==
    IF IsSome(g.city)
    THEN LET names == Unwrap(g.city).names
         IN IF IsNone(names) THEN Returned(None)
            ELSE IF lang \in DOMAIN Unwrap(names)
                 THEN Returned(Some(Unwrap(names)[lang]))
                 ELSE Panicked
    ELSE Returned(None)

get_some_region_iso_Mut(g, last) ==
    LET subdivs == g.subdivisions
    IN IF IsNone(subdivs) THEN None
       ELSE LET v == Unwrap(subdivs)
            IN IF Len(v) = 0 THEN None ELSE v[1].iso_code

get_some_region_iso(g, last) ==
    LET subdivs == g.subdivisions
    IN IF IsNone(subdivs) THEN None
       ELSE LET v == Unwrap(subdivs)
                subdiv == IF Len(v) = 0 THEN None
                          ELSE IF last THEN Some(v[Len(v)]) ELSE Some(v[1])
            IN IF IsSome(subdiv) THEN Unwrap(subdiv).iso_code ELSE None

get_some_country_iso(g) ==
    IF IsSome(g.country) THEN Unwrap(g.country).iso_code ELSE None

get_some_loc_Mut(g) ==
    IF IsSome(g.location)
    THEN LET loc == Unwrap(g.location)
         IN IF IsSome(loc.latitude) /\ IsSome(loc.longitude)
            THEN Some(<<Unwrap(loc.latitude), Unwrap(loc.longitude)>>)
            ELSE IF IsSome(loc.latitude)
                 THEN Some(<<Unwrap(loc.latitude), 0>>)
                 ELSE None
    ELSE None

get_some_loc(g) ==
    IF IsSome(g.location)
    THEN LET loc == Unwrap(g.location)
         IN IF IsSome(loc.latitude) /\ IsSome(loc.longitude)
            THEN Some(<<Unwrap(loc.latitude), Unwrap(loc.longitude)>>)
            ELSE None
    ELSE None

get_some_org_Mut(asn) ==
    LET n == asn.autonomous_system_number
        o == asn.autonomous_system_organization
    IN IF IsSome(n) /\ IsSome(o)
       THEN Some("AS" \o ToString(Unwrap(n)) \o " " \o Unwrap(o))
       ELSE IF IsSome(n) THEN Some("AS" \o ToString(Unwrap(n)) \o " ")
       ELSE IF IsSome(o) THEN Some(Unwrap(o))
       ELSE None

get_some_org(asn) ==
    LET n == asn.autonomous_system_number
        o == asn.autonomous_system_organization
    IN IF IsSome(n) /\ IsSome(o)
       THEN Some("AS" \o ToString(Unwrap(n)) \o " " \o Unwrap(o))
       ELSE IF IsSome(n) THEN Some("AS" \o ToString(Unwrap(n)))
       ELSE IF IsSome(o) THEN Some(Unwrap(o))
       ELSE None

get_some_postal(g) ==
    IF IsSome(g.postal) THEN Unwrap(g.postal).code ELSE None

get_some_tz(g) ==
    IF IsSome(g.location) THEN Unwrap(g.location).time_zone ELSE None

RECURSIVE PrintLanguages(_, _)
PrintLanguages(languages, i) ==
    IF i > Len(languages) THEN ""
    ELSE IF i < Len(languages)
         THEN languages[i] \o ", " \o PrintLanguages(languages, i + 1)
         ELSE languages[i] \o "\n"

(* ---------------------------------------------------------------------- *)
(* Output records and log entries.                                         *)
(* ---------------------------------------------------------------------- *)
IpBogon(ip) == [kind |-> "json", shape |-> "bogon", ip |-> ip, bogon |-> TRUE]

IpInfo(ip, hostname, city, region_iso, country_iso, long, lat, osm, o, postal, tz) ==
    [kind |-> "json", shape |-> "resolved", ip |-> ip, hostname |-> hostname,
     city |-> city, region_iso |-> region_iso, country_iso |-> country_iso,
     long |-> long, lat |-> lat, osm |-> osm, org |-> o, postal |-> postal,
     timezone |-> tz]

Event(op, target, res) == [op |-> op, target |-> target, res |-> res]

Fatal(msg) ==
    /\ pc' = "done"
    /\ exit' = Some(ExitError)
    /\ stderr' = Some(msg)

(* ---------------------------------------------------------------------- *)
(* Initial state: the command line has been parsed.                        *)
(* ---------------------------------------------------------------------- *)
Init ==
    /\ mode \in Modes
    /\ ipaddr \in IpAddrs
    /\ lang_code \in LangCodes
    /\ last_subdiv \in BOOLEAN
    /\ pc = "city_ip2"
    /\ buffer = None
    /\ rdr_city = FALSE
    /\ rdr_asn = FALSE
    /\ geo = None
    /\ org = None
    /\ io = <<>>
    /\ stdout = <<>>
    /\ stderr = None
    /\ exit = None

(* ---------------------------------------------------------------------- *)
(* Steps of main.                                                          *)
(* ---------------------------------------------------------------------- *)
ReadCityIp2_Mut ==
    /\ pc = "city_ip2"
    /\ \E r \in ReadOutcomes :
         /\ io' = Append(io, Event("read", CITY_IP2, r))
         /\ IF r = "valid"
            THEN /\ buffer' = Some(r)
                 /\ pc' = "city_parse"
            ELSE /\ buffer' = None
                 /\ pc' = "city_lite2"
    /\ UNCHANGED <<mode, ipaddr, lang_code, last_subdiv, rdr_city, rdr_asn,
                   geo, org, stdout, stderr, exit>>

ReadCityIp2 ==
    /\ pc = "city_ip2"
    /\ \E r \in ReadOutcomes :
         /\ io' = Append(io, Event("read", CITY_IP2, r))
         /\ IF r \in {"valid", "malformed"}
            THEN /\ buffer' = Some(r)
                 /\ pc' = "city_parse"
            ELSE /\ buffer' = None
                 /\ pc' = "city_lite2"
    /\ UNCHANGED <<mode, ipaddr, lang_code, last_subdiv, rdr_city, rdr_asn,
                   geo, org, stdout, stderr, exit>>

ReadCityLite2 ==
    /\ pc = "city_lite2"
    /\ \E r \in ReadOutcomes :
         /\ io' = Append(io, Event("read", CITY_LITE2, r))
         /\ IF r \in {"valid", "malformed"}
            THEN /\ buffer' = Some(r)
                 /\ pc' = "city_parse"
                 /\ UNCHANGED <<stderr, exit>>
            ELSE /\ buffer' = None
                 /\ Fatal("Failed to read City mmdb in " \o mmdbdir)
    /\ UNCHANGED <<mode, ipaddr, lang_code, last_subdiv, rdr_city, rdr_asn,
                   geo, org, stdout>>

ParseCity ==
    /\ pc = "city_parse"
    /\ IF Unwrap(buffer) = "valid"
       THEN /\ io' = Append(io, Event("parse", "City", "Ok"))
            /\ rdr_city' = TRUE
            /\ pc' = "dispatch"
            /\ UNCHANGED <<stderr, exit>>
       ELSE /\ io' = Append(io, Event("parse", "City", "Err"))
            /\ rdr_city' = FALSE
            /\ Fatal("Failed to create City reader")
    /\ UNCHANGED <<mode, ipaddr, lang_code, last_subdiv, buffer, rdr_asn,
                   geo, org, stdout>>

ListLanguages ==
    /\ pc = "dispatch"
    /\ mode = "listonly"
    /\ \E languages \in LanguageLists :
         stdout' = IF Len(languages) = 0 THEN stdout
                   ELSE Append(stdout, [kind |-> "text", shape |-> "languages",
                                        text |-> PrintLanguages(languages, 1)])
    /\ pc' = "done"
    /\ exit' = Some(ExitOk)
    /\ UNCHANGED <<mode, ipaddr, lang_code, last_subdiv, buffer, rdr_city,
                   rdr_asn, geo, org, io, stderr>>

Bogon ==
    /\ pc = "dispatch"
    /\ mode = "lookup"
    /\ ~IsGlobal(ipaddr)
    /\ stdout' = Append(stdout, IpBogon(IpToString(ipaddr)))
    /\ pc' = "done"
    /\ exit' = Some(ExitOk)
    /\ UNCHANGED <<mode, ipaddr, lang_code, last_subdiv, buffer, rdr_city,
                   rdr_asn, geo, org, io, stderr>>

ReadAsnIp2 ==
    /\ pc = "dispatch"
    /\ mode = "lookup"
    /\ IsGlobal(ipaddr)
    /\ \E r \in ReadOutcomes :
         /\ io' = Append(io, Event("read", ASN_IP2, r))
         /\ IF r \in {"valid", "malformed"}
            THEN /\ buffer' = Some(r)
                 /\ pc' = "asn_parse"
            ELSE /\ buffer' = None
                 /\ pc' = "asn_lite2"
    /\ UNCHANGED <<mode, ipaddr, lang_code, last_subdiv, rdr_city, rdr_asn,
                   geo, org, stdout, stderr, exit>>

ReadAsnLite2 ==
    /\ pc = "asn_lite2"
    /\ \E r \in ReadOutcomes :
         /\ io' = Append(io, Event("read", ASN_LITE2, r))
         /\ IF r \in {"valid", "malformed"}
            THEN /\ buffer' = Some(r)
                 /\ pc' = "asn_parse"
                 /\ UNCHANGED <<stderr, exit>>
            ELSE /\ buffer' = None
                 /\ Fatal("Failed to read ASN mmdb in " \o mmdbdir)
    /\ UNCHANGED <<mode, ipaddr, lang_code, last_subdiv, rdr_city, rdr_asn,
                   geo, org, stdout>>

ParseAsn_Mut ==
    /\ pc = "asn_parse"
    /\ io' = Append(io, Event("parse", "ASN",
                              IF Unwrap(buffer) = "valid" THEN "Ok" ELSE "Err"))
    /\ rdr_asn' = (Unwrap(buffer) = "valid")
    /\ pc' = "query_city"
    /\ UNCHANGED <<mode, ipaddr, lang_code, last_subdiv, buffer, rdr_city,
                   geo, org, stdout, stderr, exit>>

ParseAsn ==
    /\ pc = "asn_parse"
    /\ IF Unwrap(buffer) = "valid"
       THEN /\ io' = Append(io, Event("parse", "ASN", "Ok"))
            /\ rdr_asn' = TRUE
            /\ pc' = "query_city"
            /\ UNCHANGED <<stderr, exit>>
       ELSE /\ io' = Append(io, Event("parse", "ASN", "Err"))
            /\ rdr_asn' = FALSE
            /\ Fatal("Failed to create ASN reader")
    /\ UNCHANGED <<mode, ipaddr, lang_code, last_subdiv, buffer, rdr_city,
                   geo, org, stdout>>

QueryCity ==
    /\ pc = "query_city"
    /\ \/ \E g \in CityStructs :
            /\ io' = Append(io, Event("query", "City", "Ok"))
            /\ geo' = Some(g)
            /\ pc' = "query_asn"
            /\ UNCHANGED <<stderr, exit>>
       \/ \E e \in QueryErrors :
            /\ io' = Append(io, Event("query", "City", e))
            /\ geo' = None
            /\ Fatal("Failed to query City mmdb")
    /\ UNCHANGED <<mode, ipaddr, lang_code, last_subdiv, buffer, rdr_city,
                   rdr_asn, org, stdout>>

QueryAsn ==
    /\ pc = "query_asn"
    /\ \/ \E a \in AsnStructs :
            /\ io' = Append(io, Event("query", "ASN", "Ok"))
            /\ org' = Some(a)
            /\ pc' = "emit"
            /\ UNCHANGED <<stderr, exit>>
       \/ \E e \in QueryErrors :
            /\ io' = Append(io, Event("query", "ASN", e))
            /\ org' = None
            /\ Fatal("Failed to query ASN mmdb")
    /\ UNCHANGED <<mode, ipaddr, lang_code, last_subdiv, buffer, rdr_city,
                   rdr_asn, geo, stdout>>

Emit ==
    /\ pc = "emit"
    /\ \E hostname \in HostnameResults :
         LET g == Unwrap(geo)
             location == get_some_loc(g)
             (* let (longitude, latitude) = location; *)
             longitude == Unwrap(location)[1]
             latitude == Unwrap(location)[2]
             long == IF IsSome(location) THEN Some(longitude) ELSE None
             lat == IF IsSome(location) THEN Some(latitude) ELSE None
             osm == IF IsSome(location)
                    THEN Some("https://openstreetmap.org/#map=11/"
                              \o FmtF64(longitude) \o "/" \o FmtF64(latitude))
                    ELSE None
             city == get_some_city(g, lang_code)
         IN /\ io' = Append(io, Event("dns", IpToString(ipaddr),
                                      IF IsSome(hostname) THEN "Ok" ELSE "Err"))
            /\ IF city.panicked
               THEN /\ stdout' = stdout
                    /\ stderr' = Some("called Option::unwrap() on a None value")
                    /\ exit' = Some(ExitPanic)
               ELSE /\ stdout' = Append(stdout,
                        IpInfo(IpToString(ipaddr), hostname, city.val,
                               get_some_region_iso(g, last_subdiv),
                               get_some_country_iso(g), long, lat, osm,
                               get_some_org(Unwrap(org)), get_some_postal(g),
                               get_some_tz(g)))
                    /\ stderr' = stderr
                    /\ exit' = Some(ExitOk)
    /\ pc' = "done"
    /\ UNCHANGED <<mode, ipaddr, lang_code, last_subdiv, buffer, rdr_city,
                   rdr_asn, geo, org>>

Next ==
    \/ ReadCityIp2
    \/ ReadCityLite2
    \/ ParseCity
    \/ ListLanguages
    \/ Bogon
    \/ ReadAsnIp2
    \/ ReadAsnLite2
    \/ ParseAsn
    \/ QueryCity
    \/ QueryAsn
    \/ Emit

Spec == Init /\ [][Next]_vars

(* ---------------------------------------------------------------------- *)
(* Vocabulary of the properties.                                           *)
(* ---------------------------------------------------------------------- *)
Done == pc = "done"
Routable == mode = "lookup" /\ IsGlobal(ipaddr)
JsonOut == SelectSeq(stdout, LAMBDA r : r.kind = "json")
HasEvent(op, target, results) ==
    \E i \in 1..Len(io) : io[i].op = op /\ io[i].target = target /\ io[i].res \in results
ReadFailed == {"unreadable", "missing"}
(* main ran to the end of the lookup branch and printed the resolved record *)
Emitted ==
    /\ Done
    /\ Len(stdout) = 1
    /\ stdout[1].kind = "json"
    /\ stdout[1].shape = "resolved"
(* the lookup branch reached the construction of the IpInfo record *)
Merged == Done /\ IsSome(geo) /\ IsSome(org)
OsmPrefix == "https://openstreetmap.org/#map=11/"

(* C1: for a non-routable address in lookup mode no file read, parse, query *)
(* or DNS call ever happens, and the finished run has printed exactly the   *)
(* bogon record.                                                            *)
C1_BogonBeforeAnyIO ==
    (mode = "lookup" /\ ~IsGlobal(ipaddr)) =>
        /\ io = <<>>
        /\ Done => stdout = <<IpBogon(IpToString(ipaddr))>>

(* C2: when the city name mapping lacks the requested language, the run     *)
(* exits 0 and prints a resolved record whose city is absent, the other     *)
(* fields being merged as usual.                                            *)
C2_MissingLanguageGivesAbsentCity ==
    (/\ Merged
     /\ IsSome(Unwrap(geo).city)
     /\ IsSome(Unwrap(Unwrap(geo).city).names)
     /\ lang_code \notin DOMAIN Unwrap(Unwrap(Unwrap(geo).city).names)) =>
        /\ exit = Some(ExitOk)
        /\ Emitted
        /\ stdout[1].city = None
        /\ stdout[1].org = get_some_org(Unwrap(org))
        /\ stdout[1].timezone = get_some_tz(Unwrap(geo))

(* C3: a query answering "address not present" is not a failure: the run    *)
(* exits 0 and prints a resolved record.                                    *)
C3_NotFoundIsNotFatal ==
    (/\ Done
     /\ Routable
     /\ HasEvent("query", "City", {"NotFound"}) \/ HasEvent("query", "ASN", {"NotFound"})
     /\ ~HasEvent("query", "City", {"InvalidData"})
     /\ ~HasEvent("query", "ASN", {"InvalidData"})) =>
        /\ exit = Some(ExitOk)
        /\ Emitted

(* C4: with both source coordinates present the map link is the prefix      *)
(* followed by the source longitude, a slash and the source latitude.       *)
C4_MapLinkLongitudeFirst ==
    (/\ Emitted
     /\ IsSome(Unwrap(geo).location)
     /\ IsSome(Unwrap(Unwrap(geo).location).latitude)
     /\ IsSome(Unwrap(Unwrap(geo).location).longitude)) =>
        LET loc == Unwrap(Unwrap(geo).location)
        IN stdout[1].osm = Some(OsmPrefix \o FmtF64(Unwrap(loc.longitude))
                                \o "/" \o FmtF64(Unwrap(loc.latitude)))

(* C5 as stated: a database that cannot be used ends a routable lookup with *)
(* a non-zero exit and empty standard output; in every run JSON is written  *)
(* at most once and only after both databases were opened and queried; exit *)
(* 0 comes with exactly one JSON object and a non-zero exit with none.      *)
DatabaseUnusable ==
    \/ HasEvent("read", CITY_LITE2, ReadFailed)
    \/ HasEvent("read", ASN_LITE2, ReadFailed)
    \/ HasEvent("parse", "City", {"Err"})
    \/ HasEvent("parse", "ASN", {"Err"})
BothOpenedAndQueried ==
    /\ HasEvent("parse", "City", {"Ok"})
    /\ HasEvent("parse", "ASN", {"Ok"})
    /\ HasEvent("query", "City", {"Ok"})
    /\ HasEvent("query", "ASN", {"Ok"})
FatalPath ==
    (Routable /\ Done /\ DatabaseUnusable) =>
        /\ exit # Some(ExitOk)
        /\ stdout = <<>>
C5_EveryRunJsonAfterBothDatabases ==
    /\ FatalPath
    /\ Len(JsonOut) <= 1
    /\ Len(JsonOut) = 1 => BothOpenedAndQueried
    /\ Done => /\ exit = Some(ExitOk) => Len(JsonOut) = 1
               /\ exit # Some(ExitOk) => stdout = <<>>

(* C5 amended: a database that cannot be used ends a routable lookup with a *)
(* non-zero exit and empty standard output; in every run JSON is written at *)
(* most once, and for a routable address only after both databases were     *)
(* opened and queried; in lookup mode exit 0 comes with exactly one JSON    *)
(* object, and in every run a non-zero exit comes with no output.           *)
C5_RoutableJsonAfterBothDatabases ==
    /\ FatalPath
    /\ Len(JsonOut) <= 1
    /\ (Routable /\ Len(JsonOut) = 1) => BothOpenedAndQueried
    /\ Done => /\ (mode = "lookup" /\ exit = Some(ExitOk)) =>
                      (Len(JsonOut) = 1 /\ Len(stdout) = 1)
               /\ exit # Some(ExitOk) => stdout = <<>>
C5_Witness ==
    /\ Done
    /\ Routable
    /\ HasEvent("read", ASN_IP2, {"missing"})
    /\ HasEvent("read", ASN_LITE2, {"missing"})
    /\ exit = Some(ExitError)
    /\ stdout = <<>>

(* C6: org is decided by the presence of the two ASN fields: both give      *)
(* "AS<number> <organization>", number only "AS<number>", organization only *)
(* the organization unchanged, neither an absent field.                     *)
C6_OrgByPresence ==
    Emitted =>
        LET n == Unwrap(org).autonomous_system_number
            o == Unwrap(org).autonomous_system_organization
            out == stdout[1].org
        IN /\ (IsSome(n) /\ IsSome(o)) =>
                 out = Some("AS" \o ToString(Unwrap(n)) \o " " \o Unwrap(o))
           /\ (IsSome(n) /\ IsNone(o)) => out = Some("AS" \o ToString(Unwrap(n)))
           /\ (IsNone(n) /\ IsSome(o)) => out = o
           /\ (IsNone(n) /\ IsNone(o)) => out = None
C6_Witness ==
    /\ Emitted
    /\ Unwrap(org).autonomous_system_number = Some(15169)
    /\ Unwrap(org).autonomous_system_organization = None
    /\ stdout[1].org = Some("AS15169")

(* C7: the region is the isoCode of the first subdivision under policy      *)
(* First and of the last one under policy Last; it is absent when the list  *)
(* is absent or empty or the selected element has no isoCode; a one-element *)
(* list gives the same region under both policies.                          *)
C7_RegionFromSelectedSubdivision ==
    Emitted =>
        LET s == Unwrap(geo).subdivisions
            out == stdout[1].region_iso
        IN /\ IsNone(s) => out = None
           /\ (IsSome(s) /\ Len(Unwrap(s)) = 0) => out = None
           /\ (IsSome(s) /\ Len(Unwrap(s)) > 0 /\ ~last_subdiv) =>
                 out = Unwrap(s)[1].iso_code
           /\ (IsSome(s) /\ Len(Unwrap(s)) > 0 /\ last_subdiv) =>
                 out = Unwrap(s)[Len(Unwrap(s))].iso_code
           /\ (IsSome(s) /\ Len(Unwrap(s)) = 1) => out = Unwrap(s)[1].iso_code
C7_Witness ==
    /\ Emitted
    /\ last_subdiv
    /\ Unwrap(geo).subdivisions =
           Some(<<[iso_code |-> Some("ZH")], [iso_code |-> Some("8")]>>)
    /\ stdout[1].region_iso = Some("8")

(* C8: lat, long and osm are all present exactly when the source location   *)
(* has both coordinates and all absent otherwise; timezone is the source    *)
(* location's time zone whatever the coordinates are.                       *)
C8_CoordinatesAllOrNone ==
    Emitted =>
        LET l == Unwrap(geo).location
            both == /\ IsSome(l)
                    /\ IsSome(Unwrap(l).latitude)
                    /\ IsSome(Unwrap(l).longitude)
            r == stdout[1]
        IN /\ IsSome(r.lat) <=> both
           /\ IsSome(r.long) <=> both
           /\ IsSome(r.osm) <=> both
           /\ r.timezone = IF IsSome(l) THEN Unwrap(l).time_zone ELSE None
C8_Witness ==
    /\ Emitted
    /\ IsSome(Unwrap(geo).location)
    /\ Unwrap(Unwrap(geo).location).latitude = Some(47)
    /\ Unwrap(Unwrap(geo).location).longitude = None
    /\ stdout[1].lat = None
    /\ stdout[1].long = None
    /\ stdout[1].osm = None
    /\ stdout[1].timezone = Some("Europe/Zurich")

(* The GeoIP2 file of a GeoLite2 file, and the database a file belongs to.  *)
Commercial(f) == IF f = CITY_LITE2 THEN CITY_IP2 ELSE ASN_IP2
DbOf(f) == IF f \in {CITY_IP2, CITY_LITE2} THEN "City" ELSE "ASN"

(* C9 as stated: for each database the GeoLite2 file is read only right     *)
(* after a read of the GeoIP2 file that found the file absent; a GeoIP2     *)
(* file that was read but is not a valid database is followed by the failed *)
(* parse and the fatal exit; the failure to read a database is reported     *)
(* only when both files failed to be read.                                  *)
C9_LiteOnlyWhenCommercialAbsent ==
    /\ \A i \in 1..Len(io) :
         (io[i].op = "read" /\ io[i].target \in {CITY_LITE2, ASN_LITE2}) =>
             /\ i > 1
             /\ io[i - 1] = Event("read",
                     IF io[i].target = CITY_LITE2 THEN CITY_IP2 ELSE ASN_IP2, "missing")
    /\ \A i \in 1..Len(io) :
         (io[i].op = "read" /\ io[i].target \in {CITY_IP2, ASN_IP2}
                            /\ io[i].res = "malformed") =>
             /\ i < Len(io) =>
                   io[i + 1] = Event("parse",
                       IF io[i].target = CITY_IP2 THEN "City" ELSE "ASN", "Err")
    /\ \A db \in {"City", "ASN"} :
         stderr = Some("Failed to read " \o db \o " mmdb in " \o mmdbdir) =>
             /\ HasEvent("read", IF db = "City" THEN CITY_IP2 ELSE ASN_IP2, ReadFailed)
             /\ HasEvent("read", IF db = "City" THEN CITY_LITE2 ELSE ASN_LITE2, ReadFailed)

(* C9 amended: for each database the GeoLite2 file is read only right after *)
(* a failed read of the GeoIP2 file (absent, or present but unreadable);    *)
(* a GeoIP2 file that was read but is not a                                 *)
(* valid database is followed by the failed parse and the fatal exit, never *)
(* by a read of the GeoLite2 file; the failure to read a database is        *)
(* reported only when both files failed to be read.                         *)
C9_LiteOnlyAfterCommercialReadFails ==
    /\ \A i \in 1..Len(io) :
         (io[i].op = "read" /\ io[i].target \in {CITY_LITE2, ASN_LITE2}) =>
             /\ i > 1
             /\ io[i - 1] \in {Event("read", Commercial(io[i].target), r) : r \in ReadFailed}
    /\ \A i \in 1..Len(io) :
         (io[i].op = "read" /\ io[i].target \in {CITY_IP2, ASN_IP2}
                            /\ io[i].res = "malformed") =>
             /\ i < Len(io) => /\ io[i + 1] = Event("parse", DbOf(io[i].target), "Err")
                               /\ i + 1 = Len(io)
                               /\ exit = Some(ExitError)
                               /\ stderr = Some("Failed to create "
                                                \o DbOf(io[i].target) \o " reader")
    /\ \A db \in {"City", "ASN"} :
         stderr = Some("Failed to read " \o db \o " mmdb in " \o mmdbdir) =>
             LET ip2 == IF db = "City" THEN CITY_IP2 ELSE ASN_IP2
                 lite2 == IF db = "City" THEN CITY_LITE2 ELSE ASN_LITE2
             IN /\ HasEvent("read", ip2, ReadFailed)
                /\ HasEvent("read", lite2, ReadFailed)
                /\ exit = Some(ExitError)
C9_Witness ==
    /\ Len(io) >= 3
    /\ io[1] = Event("read", CITY_IP2, "unreadable")
    /\ io[2] = Event("read", CITY_LITE2, "valid")
    /\ io[3] = Event("parse", "City", "Ok")

(* C10: with both source coordinates present, the record's lat field holds  *)
(* the source latitude and its long field the source longitude.             *)
C10_LatLongNotExchanged ==
    (/\ Emitted
     /\ IsSome(Unwrap(geo).location)
     /\ IsSome(Unwrap(Unwrap(geo).location).latitude)
     /\ IsSome(Unwrap(Unwrap(geo).location).longitude)) =>
        /\ stdout[1].lat = Unwrap(Unwrap(geo).location).latitude
        /\ stdout[1].long = Unwrap(Unwrap(geo).location).longitude

====
